---------------------------- MODULE Spec2Model ----------------------------
(***************************************************************************)
(* A model of the Pearl policy learners and neural-network helpers:         *)
(*   - DisjointLinearBandit.learn_batch   (per-action regression routing)   *)
(*   - update_target_network(s)           (soft target updates)             *)
(*   - ensemble_forward                   (batched per-model evaluation)    *)
(*   - PolicyGradient.act / learn_batch                                     *)
(*   - DeepBandit.get_scores                                                *)
(*   - mlp_block / conv_block                                               *)
(*   - DuelingValueNetwork.forward                                          *)
(* Tensors are modelled with exact integer / rational arithmetic; every     *)
(* component has a specification of its own (SpecBandit, SpecTarget, ...),  *)
(* in which the variables of the other components stay at their idle value. *)
(***************************************************************************)
EXTENDS Integers, Sequences, FiniteSets, TLC

VARIABLES
    linear_regressions, \* DisjointLinearBandit._linear_regressions: per action, the learn_batch calls received
    batches             \* history of the batches given to DisjointLinearBandit.learn_batch

varsBandit == <<linear_regressions, batches>>

VARIABLES
    target_networks,    \* list_of_target_networks: each a state_dict (key -> value)
    source_networks,    \* list_of_source_networks: each a state_dict (key -> value)
    tn_last             \* the last update call, with the networks as they were before it

varsTarget == <<target_networks, source_networks, tn_last>>

VARIABLES
    ef_input,           \* ensemble_forward: the models (their parameters) and the features given
    ef_result           \* ensemble_forward: what the call returned

varsEnsemble == <<ef_input, ef_result>>

VARIABLES
    actor,              \* PolicyGradient._actor: its parameters
    optimizer_steps,    \* PolicyGradient._optimizer: the steps it has taken
    exploration_calls,  \* the calls self._exploration_module.act received, with what each returned
    pg_last             \* the last PolicyGradient call: inputs, result, and the state before it

varsPG == <<actor, optimizer_steps, exploration_calls, pg_last>>

VARIABLES
    db_input,           \* DeepBandit.get_scores: the network, the subjective state, the action space
    db_result           \* DeepBandit.get_scores: what the call returned

varsDeepBandit == <<db_input, db_result>>

VARIABLES
    mlp_args,           \* mlp_block: the arguments of the call
    mlp_result,         \* mlp_block: how the call ended and what it returned
    conv_args,          \* conv_block: the arguments of the call
    conv_result         \* conv_block: what the call returned

varsMlp == <<mlp_args, mlp_result>>

varsConv == <<conv_args, conv_result>>

VARIABLES
    dv_input,           \* DuelingValueNetwork.forward: the network and the input x
    dv_result           \* DuelingValueNetwork.forward: what the call returned

varsDueling == <<dv_input, dv_result>>

VARIABLES
    memory,             \* ReplayBuffer: the transitions a concrete buffer stores, oldest first
    capacity,           \* ReplayBuffer: how many transitions the concrete buffer keeps
    rb_last             \* the last ReplayBuffer call: its arguments, its result, the memory before it

varsReplay == <<memory, capacity, rb_last>>

vars == <<varsBandit, varsTarget, varsEnsemble, varsPG, varsDeepBandit, varsMlp, varsConv, varsDueling, varsReplay>>

-----------------------------------------------------------------------------
(* Generic helpers *)

SeqsUpTo(S, n) == UNION {[1..k -> S] : k \in 0..n}

RECURSIVE SumSeq(_)
SumSeq(s) == IF s = <<>> THEN 0 ELSE Head(s) + SumSeq(Tail(s))

RECURSIVE Concat(_)
Concat(ss) == IF ss = <<>> THEN <<>> ELSE Head(ss) \o Concat(Tail(ss))

Min2(a, b) == IF a <= b THEN a ELSE b

Abs(n) == IF n < 0 THEN -n ELSE n

RECURSIVE GCD(_, _)
GCD(a, b) == IF b = 0 THEN a ELSE GCD(b, a % b)

\* Exact rationals <<numerator, denominator>>, denominator > 0, in lowest terms
RNorm(n, d) ==
    LET g == GCD(Abs(n), Abs(d))
        sgn == IF d < 0 THEN -1 ELSE 1
    IN <<sgn * (n \div g), sgn * (d \div g)>>

RInt(n) == <<n, 1>>
RAdd(p, q) == RNorm(p[1] * q[2] + q[1] * p[2], p[2] * q[2])
RSub(p, q) == RNorm(p[1] * q[2] - q[1] * p[2], p[2] * q[2])
RMul(p, q) == RNorm(p[1] * q[1], p[2] * q[2])

-----------------------------------------------------------------------------
(* Tensors: a shape and the elements in row-major order *)

RECURSIVE Numel(_)
Numel(shape) == IF shape = <<>> THEN 1 ELSE Head(shape) * Numel(Tail(shape))

\* The 0-based multi-index of the i-th element (i 0-based) of a tensor of this shape
RECURSIVE Unravel(_, _)
Unravel(i, shape) ==
    IF shape = <<>> THEN <<>>
    ELSE LET inner == Numel(Tail(shape))
         IN <<i \div inner>> \o Unravel(i % inner, Tail(shape))

\* The 0-based position of the element at a 0-based multi-index
RECURSIVE Ravel(_, _)
Ravel(idx, shape) ==
    IF shape = <<>> THEN 0
    ELSE Head(idx) * Numel(Tail(shape)) + Ravel(Tail(idx), Tail(shape))

At(t, idx) == t.data[Ravel(idx, t.shape) + 1]

\* A tensor of the given shape whose element at multi-index idx is f[idx]
MkTensor(shape, f(_)) ==
    [shape |-> shape,
     data |-> SubSeq([i \in 1..Numel(shape) |-> f(Unravel(i - 1, shape))], 1, Numel(shape))]

\* An element-wise function of a tensor
MapTensor(t, f(_)) ==
    [shape |-> t.shape,
     data |-> SubSeq([i \in 1..Len(t.data) |-> f(t.data[i])], 1, Len(t.data))]

\* torch.Tensor.permute(dims): dimension k of the result is dimension dims[k] of t
\* (dims 0-based, as in torch)
Permute(t, dims) ==
    LET new_shape == [k \in 1..Len(dims) |-> t.shape[dims[k] + 1]]
        old_index(m) == [d \in 1..Len(dims) |->
                            m[CHOOSE k \in 1..Len(dims) : dims[k] + 1 = d]]
    IN [shape |-> new_shape,
        data |-> [i \in 1..Numel(new_shape) |-> At(t, old_index(Unravel(i - 1, new_shape)))]]

\* torch.Tensor.view(shape) of a contiguous tensor, one dimension possibly -1
View(t, shape) ==
    LET known == Numel([k \in 1..Len(shape) |-> IF shape[k] = -1 THEN 1 ELSE shape[k]])
    IN [shape |-> [k \in 1..Len(shape) |->
                      IF shape[k] = -1 THEN Numel(t.shape) \div known ELSE shape[k]],
        data |-> t.data]

\* torch.Tensor.squeeze(): every dimension of size 1 is removed
Squeeze(t) == [shape |-> SelectSeq(t.shape, LAMBDA d : d # 1), data |-> t.data]

Dot(w, x) == SumSeq([k \in 1..Len(w) |-> w[k] * x[k]])

-----------------------------------------------------------------------------
(* DisjointLinearBandit *)

NumActions == 2
MaxBatch == 2
MaxLearnCalls == 2

ActionIdx == 0..(NumActions - 1)

\* self._discrete_action_space[action_idx]: the feature vector of an action
ActionFeature(action_idx) == <<100 + action_idx>>

\* A TransitionBatch: the c-th batch given, with the drawn actions and weight option.
\* States and rewards identify the transition (batch number, position).
MkBatch(c, actions, weight_is_none) ==
    [state |-> [k \in 1..Len(actions) |-> <<c, k>>],
     action |-> actions,
     reward |-> [k \in 1..Len(actions) |-> 10 * c + k],
     weight_is_none |-> weight_is_none,
     weight |-> IF weight_is_none THEN <<>> ELSE [k \in 1..Len(actions) |-> k + 1]]

\* torch.nonzero(mask, as_tuple=True)[0]: the positions where the mask holds, ascending
RECURSIVE NonzeroFrom(_, _, _)
NonzeroFrom(action, action_idx, k) ==
    IF k > Len(action) THEN <<>>
    ELSE (IF action[k] = action_idx THEN <<k>> ELSE <<>>)
         \o NonzeroFrom(action, action_idx, k + 1)

NonzeroEqShifted(action, action_idx) == NonzeroFrom(action, (action_idx + 1) % NumActions, 1)

NonzeroEq(action, action_idx) == NonzeroFrom(action, action_idx, 1)

\* torch.index_select(t, dim=0, index)
IndexSelect(t, index) == [j \in 1..Len(index) |-> t[index[j]]]

\* One iteration of the loop over enumerate(self._linear_regressions)
LearnOne(calls, batch, action_idx) ==
    LET index == NonzeroEq(batch.action, action_idx) IN
    IF Len(index) = 0 THEN calls
    ELSE LET state == IndexSelect(batch.state, index)
             context == [j \in 1..Len(state) |-> state[j] \o ActionFeature(action_idx)]
             reward == IndexSelect(batch.reward, index)
             weight == IF ~batch.weight_is_none
                       THEN IndexSelect(batch.weight, index)
                       ELSE [j \in 1..Len(reward) |-> 1]
         IN Append(calls, [x |-> context, y |-> reward, weight |-> weight])

InitBandit ==
    /\ linear_regressions = [a \in ActionIdx |-> <<>>]
    /\ batches = <<>>

IdleBandit ==
    /\ linear_regressions = <<>>
    /\ batches = <<>>

DLB_learn_batch ==
    /\ Len(batches) < MaxLearnCalls
    /\ \E actions \in SeqsUpTo(ActionIdx, MaxBatch), weight_is_none \in BOOLEAN :
         LET batch == MkBatch(Len(batches) + 1, actions, weight_is_none) IN
         /\ linear_regressions' =
                [a \in ActionIdx |-> LearnOne(linear_regressions[a], batch, a)]
         /\ batches' = Append(batches, batch)

\* The transitions of a batch, in batch order
TransitionsOf(batch) ==
    [k \in 1..Len(batch.action) |->
        [state |-> batch.state[k], action |-> batch.action[k],
         reward |-> batch.reward[k],
         weight |-> IF batch.weight_is_none THEN 1 ELSE batch.weight[k]]]

\* What a regression has been given, call after call, as (x, y, weight) rows
RowsOf(call) == [j \in 1..Len(call.x) |-> <<call.x[j], call.y[j], call.weight[j]>>]

GivenTo(a) == Concat([c \in 1..Len(linear_regressions[a]) |-> RowsOf(linear_regressions[a][c])])

ExpectedFor(a) ==
    LET all == Concat([c \in 1..Len(batches) |-> TransitionsOf(batches[c])])
        mine == SelectSeq(all, LAMBDA t : t.action = a)
    IN [j \in 1..Len(mine) |-> <<mine[j].state \o ActionFeature(a), mine[j].reward, mine[j].weight>>]

BatchesWith(a) == {c \in 1..Len(batches) : \E k \in 1..Len(batches[c].action) : batches[c].action[k] = a}

\* C1: after any sequence of learn_batch calls, regression i has been given exactly
\* the transitions whose action is i (state ++ action feature, reward, weight or 1),
\* in batch order, none dropped, duplicated or misrouted; and it was called once per
\* batch in which action i occurs, never for a batch without it.
C1_RegressionGetsItsTransitions ==
    \A a \in ActionIdx :
        /\ GivenTo(a) = ExpectedFor(a)
        /\ Len(linear_regressions[a]) = Cardinality(BatchesWith(a))
        /\ \A c \in 1..Len(linear_regressions[a]) :
              /\ Len(linear_regressions[a][c].x) > 0
              /\ Len(linear_regressions[a][c].y) = Len(linear_regressions[a][c].x)
              /\ Len(linear_regressions[a][c].weight) = Len(linear_regressions[a][c].x)

\* Two batches learnt, one with weights and one without, one of them without action 0,
\* and both regressions called.
C1_Witness ==
    /\ Len(batches) = 2
    /\ batches[1].weight_is_none /\ ~batches[2].weight_is_none
    /\ Len(batches[1].action) = 2 /\ batches[1].action[1] = 1 /\ batches[1].action[2] = 1
    /\ Len(batches[2].action) = 2 /\ batches[2].action[1] = 1 /\ batches[2].action[2] = 0
    /\ Len(linear_regressions[0]) = 1
    /\ Len(linear_regressions[1]) = 2

-----------------------------------------------------------------------------
(* update_target_network / update_target_networks *)

MaxNets == 2
MaxUpdates == 2

\* The values of tau tried: 0, 1/2 and 1
Taus == {<<0, 1>>, <<1, 2>>, <<1, 1>>}

\* Networks as constructed: every entry of every network has a value of its own.
\* A target network may hold entries its source does not have.
TargetInit(i) == [weight |-> RInt(8 * i), bias |-> RInt(8 * i + 4)]
SourceInit(j) == [weight |-> RInt(2 * j + 1)]

SoftUpdateValueSwapped(tau, source_value, target_value) ==
    RAdd(RMul(RSub(RInt(1), tau), source_value), RMul(tau, target_value))

\* tau * source_net_state_dict[key] + (1 - tau) * target_net_state_dict[key]
SoftUpdateValue(tau, source_value, target_value) ==
    RAdd(RMul(tau, source_value), RMul(RSub(RInt(1), tau), target_value))

\* update_target_network: the state_dict loaded back into the target
UpdatedStateDict(target, source, tau) ==
    [key \in DOMAIN target |->
        IF key \in DOMAIN source
        THEN SoftUpdateValue(tau, source[key], target[key])
        ELSE target[key]]

\* zip(list_of_target_networks, list_of_source_networks), one update per pair
RECURSIVE UpdateZipped(_, _, _, _)
UpdateZipped(targets, sources, tau, k) ==
    IF k > Min2(Len(targets), Len(sources)) THEN targets
    ELSE UpdateZipped([targets EXCEPT ![k] = UpdatedStateDict(targets[k], sources[k], tau)],
                      sources, tau, k + 1)

InitTarget ==
    /\ \E nt \in 1..MaxNets : target_networks = [i \in 1..nt |-> TargetInit(i)]
    /\ \E ns \in 1..MaxNets : source_networks = [j \in 1..ns |-> SourceInit(j)]
    /\ tn_last = [op |-> "none", n |-> 0]

IdleTarget ==
    /\ target_networks = <<>>
    /\ source_networks = <<>>
    /\ tn_last = [op |-> "idle", n |-> 0]

update_target_network ==
    /\ tn_last.n < MaxUpdates
    /\ \E i \in 1..Len(target_networks), j \in 1..Len(source_networks), tau \in Taus :
         /\ target_networks' =
                [target_networks EXCEPT ![i] = UpdatedStateDict(@, source_networks[j], tau)]
         /\ tn_last' = [op |-> "update_target_network", n |-> tn_last.n + 1,
                        target |-> i, source |-> j, tau |-> tau,
                        old_targets |-> target_networks, old_sources |-> source_networks]
    /\ UNCHANGED source_networks

update_target_networks ==
    /\ tn_last.n < MaxUpdates
    /\ \E tau \in Taus :
         /\ target_networks' = UpdateZipped(target_networks, source_networks, tau, 1)
         /\ tn_last' = [op |-> "update_target_networks", n |-> tn_last.n + 1, tau |-> tau,
                        old_targets |-> target_networks, old_sources |-> source_networks]
    /\ UNCHANGED source_networks

\* t = tau * s + (1 - tau) * o, stated on numerators and denominators
IsSoftMix(t, tau, s, o) ==
    t[1] * (tau[2] * s[2] * o[2])
        = t[2] * (tau[1] * s[1] * o[2] + (tau[2] - tau[1]) * o[1] * s[2])

\* C2: after update_target_network(target, source, tau) every entry of the target
\* whose key the source has equals tau * source + (1 - tau) * old target, and the
\* source is unchanged; update_target_networks does this pairwise (target i from
\* source i and old target i only), so tau = 0 leaves every target as it was and
\* tau = 1 makes every paired target entry equal to its source's.
C2_SoftTargetUpdate ==
    /\ tn_last.op = "update_target_network" =>
          /\ source_networks = tn_last.old_sources
          /\ \A key \in DOMAIN tn_last.old_sources[tn_last.source] :
                IsSoftMix(target_networks[tn_last.target][key], tn_last.tau,
                          tn_last.old_sources[tn_last.source][key],
                          tn_last.old_targets[tn_last.target][key])
    /\ tn_last.op = "update_target_networks" =>
          /\ source_networks = tn_last.old_sources
          /\ Len(target_networks) = Len(tn_last.old_targets)
          /\ \A i \in 1..Min2(Len(target_networks), Len(source_networks)) :
                \A key \in DOMAIN source_networks[i] :
                   /\ IsSoftMix(target_networks[i][key], tn_last.tau,
                                tn_last.old_sources[i][key], tn_last.old_targets[i][key])
                   /\ tn_last.tau = <<1, 1>> => target_networks[i][key] = source_networks[i][key]
          /\ tn_last.tau = <<0, 1>> => target_networks = tn_last.old_targets

\* A second update, of all pairs with tau = 1/2, after which a target entry is a
\* proper mix (neither its old value nor its source's).
C2_Witness ==
    /\ tn_last.op = "update_target_networks"
    /\ tn_last.n = 2
    /\ tn_last.tau = <<1, 2>>
    /\ Len(target_networks) = 2 /\ Len(source_networks) = 2
    /\ target_networks[2].weight # tn_last.old_targets[2].weight
    /\ target_networks[2].weight # source_networks[2].weight

-----------------------------------------------------------------------------
(* ensemble_forward *)

MaxEnsembleBatch == 2
MaxEnsemble == 2
MaxFeature == 2

\* The features given: element [b, i, f] identifies its batch row, model and position
FeatureValue(idx) == 100 * (idx[1] + 1) + 10 * (idx[2] + 1) + idx[3] + 1

\* One model of the ensemble (a linear regressor with the given coefficients and
\* intercept) applied to the rows of data:
\* functional_call(models[0], (params, buffers), data)
Wrapper(params, data) ==
    [b \in 1..data.shape[1] |->
        Dot(params.coefs, [f \in 1..data.shape[2] |-> At(data, <<b - 1, f - 1>>)])
            + params.intercept]

\* features[e] for a tensor of shape (ensemble_size, batch_size, feature_size)
Slice0(t, e) ==
    MkTensor(Tail(t.shape), LAMBDA idx : At(t, <<e - 1>> \o idx))

\* torch.vmap(wrapper)(params, buffers, features): model e on features[e], stacked
Vmap(params, features) ==
    LET outs == [e \in 1..features.shape[1] |-> Wrapper(params[e], Slice0(features, e))]
    IN [shape |-> <<features.shape[1], features.shape[2], 1>>, data |-> Concat(outs)]

ToBatchMajorAsIs(values) == [shape |-> <<values.shape[2], values.shape[1]>>, data |-> values.data]

\* values.permute(1, 0)
ToBatchMajor(values) == Permute(values, <<1, 0>>)

ensemble_forward_value(models, features) ==
    LET batch_size == features.shape[1]
        permuted == Permute(features, <<1, 0, 2>>)
        values == View(Vmap(models, permuted), <<-1, batch_size>>)
    IN ToBatchMajor(values)

InitEnsemble ==
    /\ \E batch_size \in 1..MaxEnsembleBatch, ensemble_size \in 1..MaxEnsemble,
          feature_size \in 1..MaxFeature :
         \E models \in [1..ensemble_size ->
                            [coefs : [1..feature_size -> {1, 2}], intercept : {0, 5}]] :
            ef_input = [models |-> models,
                        features |-> MkTensor(<<batch_size, ensemble_size, feature_size>>,
                                              FeatureValue)]
    /\ ef_result = [status |-> "none"]

IdleEnsemble ==
    /\ ef_input = [status |-> "idle"]
    /\ ef_result = [status |-> "idle"]

ensemble_forward ==
    /\ ef_result.status = "none"
    /\ ef_result' = [status |-> "returned",
                     value |-> ensemble_forward_value(ef_input.models, ef_input.features)]
    /\ UNCHANGED ef_input

\* C3: ensemble_forward(models, features) with features of shape (batch_size,
\* ensemble_size, feature_size) returns a tensor of shape (batch_size, ensemble_size)
\* whose entry [b, i] is models[i] applied to features[b, i, :].
C3_EnsembleForward ==
    ef_result.status = "returned" =>
        LET B == ef_input.features.shape[1]
            E == ef_input.features.shape[2]
            F == ef_input.features.shape[3]
        IN /\ ef_result.value.shape = <<B, E>>
           /\ Len(ef_result.value.data) = B * E
           /\ \A b \in 1..B, i \in 1..E :
                 ef_result.value.data[(b - 1) * E + i]
                    = SumSeq([f \in 1..F |->
                                ef_input.models[i].coefs[f] * (100 * b + 10 * i + f)])
                      + ef_input.models[i].intercept

\* A call with two batch rows and two different models has returned
C3_Witness ==
    /\ ef_result.status = "returned"
    /\ ef_input.features.shape = <<2, 2, 2>>
    /\ ef_input.models[1] # ef_input.models[2]

-----------------------------------------------------------------------------
(* Broadcasting element-wise operations *)

Max2(a, b) == IF a >= b THEN a ELSE b

\* A shape padded on the left with 1s to n dimensions
PadShape(shape, n) ==
    [k \in 1..n |-> IF k <= n - Len(shape) THEN 1 ELSE shape[k - (n - Len(shape))]]

\* The shape two tensors broadcast to (dimensions aligned from the right; a
\* dimension of size 1 stretches to the other's size)
BroadcastShape(sa, sb) ==
    LET n == Max2(Len(sa), Len(sb))
        pa == PadShape(sa, n)
        pb == PadShape(sb, n)
    IN [k \in 1..n |-> IF pa[k] = 1 THEN pb[k] ELSE pa[k]]

\* The element of t that takes part at multi-index idx of the broadcast result
BroadcastAt(t, idx) ==
    LET off == Len(idx) - Len(t.shape)
    IN At(t, [k \in 1..Len(t.shape) |-> IF t.shape[k] = 1 THEN 0 ELSE idx[k + off]])

\* a (op) b, element-wise with broadcasting
Broadcast(a, b, op(_, _)) ==
    MkTensor(BroadcastShape(a.shape, b.shape),
             LAMBDA idx : op(BroadcastAt(a, idx), BroadcastAt(b, idx)))

\* torch.sum(t, dim=1, keepdim=True) of a 2-D tensor of rationals
RECURSIVE RSumSeq(_)
RSumSeq(s) == IF s = <<>> THEN RInt(0) ELSE RAdd(Head(s), RSumSeq(Tail(s)))

SumDim1Keepdim(t) ==
    MkTensor(<<t.shape[1], 1>>,
             LAMBDA idx : RSumSeq([a \in 1..t.shape[2] |-> At(t, <<idx[1], a - 1>>)]))

-----------------------------------------------------------------------------
(* PolicyGradient *)

PGNumActions == 2
MaxPGBatch == 2
MaxPGCalls == 2

PGStates == {1, 2}
PGActions == 0..(PGNumActions - 1)

\* The values the actor's parameters take (the optimizer moves between them)
Thetas == {0, 1, 2}

RECURSIVE Pow2(_)
Pow2(k) == IF k = 0 THEN 1 ELSE 2 * Pow2(k - 1)

RECURSIVE Log2(_)
Log2(d) == IF d <= 1 THEN 0 ELSE 1 + Log2(d \div 2)

\* self._actor(state): one probability per action, here a power of 1/2
ActorOut(theta, state) ==
    [a \in 1..PGNumActions |-> <<1, Pow2(1 + ((theta + state + a) % 3))>>]

\* self._actor(state_batch): shape (batch_size, action count)
ActorTensor(theta, states) ==
    MkTensor(<<Len(states), PGNumActions>>,
             LAMBDA idx : ActorOut(theta, states[idx[1] + 1])[idx[2] + 1])

RLe(p, q) == p[1] * q[2] <= q[1] * p[2]

Argmin(data) ==
    (CHOOSE i \in 1..Len(data) :
        /\ \A j \in 1..Len(data) : RLe(data[i], data[j])
        /\ \A j \in 1..Len(data) : j > i => ~RLe(data[j], data[i])) - 1

\* torch.argmax(t).view((-1)).item(): the (0-based) position of the largest element
\* of the flattened tensor, the first one among equals
Argmax(data) ==
    (CHOOSE i \in 1..Len(data) :
        /\ \A j \in 1..Len(data) : RLe(data[j], data[i])
        /\ \A j \in 1..(i - 1) : ~RLe(data[i], data[j])) - 1

\* -torch.log(p) in units of ln 2 (exact: the propensities here are powers of 1/2)
NegLog(p) == Log2(p[2]) - Log2(p[1])

\* action_batch: one one-hot row per transition
OneHotBatch(actions) ==
    MkTensor(<<Len(actions), PGNumActions>>,
             LAMBDA idx : IF actions[idx[1] + 1] = idx[2] THEN 1 ELSE 0)

\* self.loss as learn_batch computes it
PGLoss(theta, states, actions, returns) ==
    LET state_batch == states                                  \* (batch_size x state_dim)
        action_batch == OneHotBatch(actions)                   \* (batch_size x action_dim)
        return_batch == [shape |-> <<Len(returns)>>, data |-> returns]  \* (batch_size)
        action_probs == ActorTensor(theta, state_batch)
        policy_propensities ==
            SumDim1Keepdim(Broadcast(action_probs, action_batch,
                                     LAMBDA p, h : RMul(p, RInt(h))))
        negative_log_probs == MapTensor(policy_propensities, NegLog)
        weighted == Broadcast(negative_log_probs, return_batch, LAMBDA n, r : n * r)
    IN SumSeq(weighted.data)

\* What act returns
PGActResult(exploit, exploit_action, module_returned) ==
    IF exploit THEN exploit_action ELSE module_returned

InitPG ==
    /\ actor \in Thetas
    /\ optimizer_steps = 0
    /\ exploration_calls = <<>>
    /\ pg_last = [op |-> "none", n |-> 0]

IdlePG ==
    /\ actor = 0
    /\ optimizer_steps = 0
    /\ exploration_calls = <<>>
    /\ pg_last = [op |-> "idle", n |-> 0]

PG_act ==
    /\ pg_last.n < MaxPGCalls
    /\ \E subjective_state \in PGStates, exploit \in BOOLEAN, module_returned \in PGActions :
         LET action_probabilities == ActorTensor(actor, <<subjective_state>>)
             exploit_action == Argmax(action_probabilities.data)
         IN /\ exploration_calls' =
                  IF exploit THEN exploration_calls
                  ELSE Append(exploration_calls,
                              [subjective_state |-> subjective_state,
                               values |-> action_probabilities,
                               exploit_action |-> exploit_action,
                               returned |-> module_returned])
            /\ pg_last' = [op |-> "act", n |-> pg_last.n + 1,
                           subjective_state |-> subjective_state, exploit |-> exploit,
                           result |-> PGActResult(exploit, exploit_action, module_returned),
                           old_actor |-> actor, old_steps |-> optimizer_steps,
                           old_calls |-> exploration_calls]
    /\ UNCHANGED <<actor, optimizer_steps>>

\* The batch learnt from: every action is drawn; the states alternate and
\* transition i carries the return i
BatchStates(batch_size) == [i \in 1..batch_size |-> IF i % 2 = 1 THEN 1 ELSE 2]

BatchReturns(batch_size) == [i \in 1..batch_size |-> i]

\* self._optimizer.step(): the parameters move (the optimizer's arithmetic is
\* not modelled)
OptimizerStep(theta, loss) == (theta + 1 + loss) % 3

PG_learn_batch ==
    /\ pg_last.n < MaxPGCalls
    /\ \E batch_size \in 1..MaxPGBatch :
         \E actions \in [1..batch_size -> PGActions] :
            LET states == BatchStates(batch_size)
                returns == BatchReturns(batch_size)
                loss == PGLoss(actor, states, actions, returns)
            IN /\ pg_last' = [op |-> "learn_batch", n |-> pg_last.n + 1,
                              states |-> states, actions |-> actions, returns |-> returns,
                              loss |-> loss, old_actor |-> actor]
               /\ actor' = OptimizerStep(actor, loss)
               /\ optimizer_steps' = optimizer_steps + 1
    /\ UNCHANGED exploration_calls

\* The negative log-propensity of transition i of the last learnt batch
NegLogPropensity(i) ==
    NegLog(ActorOut(pg_last.old_actor, pg_last.states[i])[pg_last.actions[i] + 1])

\* C4: learn_batch's loss is the sum over the transitions i of
\* -log(probability the actor gives the action taken in i) * return_i: each
\* transition's negative log-propensity is multiplied by its own return only.
C4_LossPairsOwnReturn ==
    pg_last.op = "learn_batch" =>
        pg_last.loss = SumSeq([i \in 1..Len(pg_last.states) |->
                                  NegLogPropensity(i) * pg_last.returns[i]])

\* What the code computes instead: every negative log-propensity times every return
PG_LossIsProductOfSums ==
    pg_last.op = "learn_batch" =>
        pg_last.loss = SumSeq([i \in 1..Len(pg_last.states) |-> NegLogPropensity(i)])
                        * SumSeq(pg_last.returns)

IsLargest(probs, a) == \A b \in 1..Len(probs) : RLe(probs[b], probs[a + 1])

\* C5: act with exploit=True returns the index of the largest actor output and does
\* not call the exploration module; with exploit=False it calls the module exactly
\* once, with the actor outputs as values and that index as exploit_action, and
\* returns what the module returned. The actor and the optimizer are not changed.
C5_ActDispatch ==
    pg_last.op = "act" =>
        LET probs == ActorOut(pg_last.old_actor, pg_last.subjective_state)
            before == Len(pg_last.old_calls)
        IN /\ actor = pg_last.old_actor
           /\ optimizer_steps = pg_last.old_steps
           /\ pg_last.exploit =>
                 /\ pg_last.result \in PGActions
                 /\ IsLargest(probs, pg_last.result)
                 /\ exploration_calls = pg_last.old_calls
           /\ ~pg_last.exploit =>
                 /\ Len(exploration_calls) = before + 1
                 /\ SubSeq(exploration_calls, 1, before) = pg_last.old_calls
                 /\ exploration_calls[before + 1].values.shape = <<1, PGNumActions>>
                 /\ exploration_calls[before + 1].values.data = probs
                 /\ IsLargest(probs, exploration_calls[before + 1].exploit_action)
                 /\ pg_last.result = exploration_calls[before + 1].returned

\* After a learning step, an exploring act whose exploration module returned an
\* action other than the arg-max
C5_Witness ==
    /\ pg_last.op = "act"
    /\ ~pg_last.exploit
    /\ optimizer_steps = 1
    /\ Len(exploration_calls) = 1
    /\ pg_last.result # exploration_calls[1].exploit_action

\* An exploiting act after an exploring one
C5_WitnessExploit ==
    /\ pg_last.op = "act"
    /\ pg_last.exploit
    /\ Len(exploration_calls) = 1
    /\ pg_last.result = 1

-----------------------------------------------------------------------------
(* VanillaValueNetwork *)

Relu(v) == IF v > 0 THEN v ELSE 0

\* nn.Linear(in_dim, out_dim) with integer parameters fixed by a seed
MkLinear(in_dim, out_dim, seed) ==
    [weight |-> [o \in 1..out_dim |-> [i \in 1..in_dim |-> ((seed + o + 2 * i) % 3) - 1]],
     bias |-> [o \in 1..out_dim |-> (seed + o) % 2]]

\* nn.Linear.forward on one row
LinearRow(lin, x) == [o \in 1..Len(lin.weight) |-> Dot(lin.weight[o], x) + lin.bias[o]]

ReluRow(x) == [k \in 1..Len(x) |-> Relu(x[k])]

\* VanillaValueNetwork.__init__
MkVanilla(input_dim, hidden_dims, output_dim, seed) ==
    [fc1 |-> MkLinear(input_dim, hidden_dims[1], seed),
     hiddens |-> [i \in 1..(Len(hidden_dims) - 1) |->
                     MkLinear(hidden_dims[i], hidden_dims[i + 1], seed + i)],
     fc2 |-> MkLinear(hidden_dims[Len(hidden_dims)], output_dim, seed + Len(hidden_dims))]

\* self.hiddens: Linear, ReLU, Linear, ReLU, ...
RECURSIVE HiddensRow(_, _)
HiddensRow(hiddens, x) ==
    IF hiddens = <<>> THEN x
    ELSE HiddensRow(Tail(hiddens), ReluRow(LinearRow(Head(hiddens), x)))

\* VanillaValueNetwork.forward on one row
VanillaRow(net, x) == LinearRow(net.fc2, HiddensRow(net.hiddens, ReluRow(LinearRow(net.fc1, x))))

Front(s) == SubSeq(s, 1, Len(s) - 1)

\* Row k (1-based) of a tensor seen as rows of its last dimension
RowOf(t, k) ==
    LET n == t.shape[Len(t.shape)]
    IN SubSeq(t.data, (k - 1) * n + 1, k * n)

\* A module acting on the last dimension, applied to a tensor of any rank:
\* shape (..., in) becomes (..., out)
ApplyRows(t, f(_), out_dim) ==
    LET rows == Numel(Front(t.shape))
    IN [shape |-> Front(t.shape) \o <<out_dim>>,
        data |-> Concat([k \in 1..rows |-> f(RowOf(t, k))])]

\* VanillaValueNetwork.forward
VanillaForward(net, t) ==
    ApplyRows(t, LAMBDA x : VanillaRow(net, x), Len(net.fc2.weight))

-----------------------------------------------------------------------------
(* DeepBandit.get_scores *)

MaxDBBatch == 2
MaxDBActions == 2
DBOutputDim == 1

\* The feature vector of action a (0-based) of the action space
DBActionVector(a) == <<a + 1>>

\* action_space.cat_state_tensor(subjective_state): shape (batch_size, action_count,
\* feature_size); row [b, a] is state b followed by the vector of action a
CatStateTensor(states, action_count) ==
    [shape |-> <<Len(states), action_count, Len(states[1]) + Len(DBActionVector(0))>>,
     data |-> Concat([k \in 1..(Len(states) * action_count) |->
                        states[((k - 1) \div action_count) + 1]
                            \o DBActionVector((k - 1) % action_count)])]

\* self._deep_represent_layers(feature).squeeze()
get_scores_value(net, states, action_space_given, action_count) ==
    LET feature == IF action_space_given
                   THEN CatStateTensor(states, action_count)
                   ELSE [shape |-> <<Len(states), Len(states[1])>>, data |-> Concat(states)]
    IN Squeeze(VanillaForward(net, feature))

InitDeepBandit ==
    /\ \E batch_size \in 1..MaxDBBatch, action_count \in 1..MaxDBActions,
          action_space_given \in BOOLEAN, seed \in {0, 1, 2} :
         \E states \in [1..batch_size -> {<<0>>, <<1>>, <<2>>}] :
            db_input = [states |-> states,
                        action_space_given |-> action_space_given,
                        action_count |-> IF action_space_given THEN action_count ELSE 0,
                        net |-> MkVanilla(IF action_space_given THEN 2 ELSE 1,
                                          <<2>>, DBOutputDim, seed)]
    /\ db_result = [status |-> "none"]

IdleDeepBandit ==
    /\ db_input = [status |-> "idle"]
    /\ db_result = [status |-> "idle"]

DB_get_scores ==
    /\ db_result.status = "none"
    /\ db_result' = [status |-> "returned",
                     value |-> get_scores_value(db_input.net, db_input.states,
                                                db_input.action_space_given,
                                                db_input.action_count)]
    /\ UNCHANGED db_input

\* C6: with an action space, get_scores returns the network values with shape
\* (batch_size, action_count), for every batch_size >= 1 and action_count >= 1,
\* row b holding the scores of state b (one score per state-action pair).
C6_ScoresShape ==
    (db_result.status = "returned" /\ db_input.action_space_given) =>
        LET B == Len(db_input.states)
            A == db_input.action_count
        IN /\ db_result.value.shape = <<B, A>>
           /\ \A b \in 1..B, a \in 1..A :
                 <<db_result.value.data[(b - 1) * A + a]>>
                    = VanillaRow(db_input.net, db_input.states[b] \o DBActionVector(a - 1))

\* What holds of the code: the shape is (batch_size, action_count) with every
\* dimension of size 1 dropped, the scores in row-major order
DB_ScoresShapeSqueezed ==
    (db_result.status = "returned" /\ db_input.action_space_given) =>
        LET B == Len(db_input.states)
            A == db_input.action_count
        IN /\ db_result.value.shape = SelectSeq(<<B, A>>, LAMBDA d : d > 1)
           /\ \A b \in 1..B, a \in 1..A :
                 <<db_result.value.data[(b - 1) * A + a]>>
                    = VanillaRow(db_input.net, db_input.states[b] \o DBActionVector(a - 1))

-----------------------------------------------------------------------------
(* mlp_block *)

MaxDim == 2
MaxHidden == 2

Linear(in_dim, out_dim) == [type |-> "Linear", in_features |-> in_dim, out_features |-> out_dim]
LayerNorm(dim) == [type |-> "LayerNorm", normalized_shape |-> dim]
Dropout(p) == [type |-> "Dropout", p |-> p]
Activation(name) == [type |-> "Activation", name |-> name]
BatchNorm1d(dim) == [type |-> "BatchNorm1d", num_features |-> dim]

\* nn.Sequential(*single_layers), not wrapped
Plain(modules) == [residual |-> FALSE, modules |-> modules]

\* ResidualWrapper(nn.Sequential(*single_layers))
ResidualWrapper(layer) == [residual |-> TRUE, modules |-> layer.modules]

\* single_layers of one hidden layer
HiddenModules(args, in_dim, out_dim) ==
    <<Linear(in_dim, out_dim)>>
    \o (IF args.use_layer_norm THEN <<LayerNorm(out_dim)>> ELSE <<>>)
    \o (IF args.dropout_ratio > 0 THEN <<Dropout(args.dropout_ratio)>> ELSE <<>>)
    \o <<Activation(args.hidden_activation)>>
    \o (IF args.use_batch_norm THEN <<BatchNorm1d(out_dim)>> ELSE <<>>)

\* One pass of the loop over range(len(dims) - 2): the layer appended
HiddenLayer(args, in_dim, out_dim) ==
    LET single_layer_model == Plain(HiddenModules(args, in_dim, out_dim))
    IN IF args.use_skip_connections /\ in_dim = out_dim
       THEN ResidualWrapper(single_layer_model)
       ELSE single_layer_model

\* The warnings one layer logs: one when skip connections are enabled and the
\* layer's dimensions differ
SkipWarning(args, in_dim, out_dim) ==
    IF args.use_skip_connections /\ in_dim # out_dim THEN <<<<in_dim, out_dim>>>> ELSE <<>>

\* last_layer
LastModules(args, in_dim, out_dim) ==
    <<Linear(in_dim, out_dim)>>
    \o (IF args.last_activation # "None" THEN <<Activation(args.last_activation)>> ELSE <<>>)

\* mlp_block: the outcome of a call. `raise logging.warn(...)` logs the warning and
\* then raises None, which is a TypeError.
mlp_block_outcome(args) ==
    LET dims == <<args.input_dim>> \o args.hidden_dims \o <<args.output_dim>>
        n == Len(dims)
        layers == [i \in 1..(n - 2) |-> HiddenLayer(args, dims[i], dims[i + 1])]
        warned == Concat([i \in 1..(n - 2) |-> SkipWarning(args, dims[i], dims[i + 1])])
        last_layer_model == Plain(LastModules(args, dims[n - 1], dims[n]))
    IN IF args.use_skip_connections /\ dims[n - 1] # dims[n]
       THEN [status |-> "raised", exception |-> "TypeError",
             warnings |-> warned \o <<<<dims[n - 1], dims[n]>>>>]
       ELSE [status |-> "returned",
             layers |-> Append(layers, IF args.use_skip_connections
                                       THEN ResidualWrapper(last_layer_model)
                                       ELSE last_layer_model),
             warnings |-> warned]

InitMlp ==
    /\ mlp_args \in [input_dim : 1..MaxDim,
                     hidden_dims : SeqsUpTo(1..MaxDim, MaxHidden),
                     output_dim : 1..MaxDim,
                     use_batch_norm : BOOLEAN,
                     use_layer_norm : BOOLEAN,
                     hidden_activation : {"relu"},
                     last_activation : {"None", "sigmoid"},
                     dropout_ratio : {0, 5},      \* in tenths
                     use_skip_connections : BOOLEAN]
    /\ mlp_result = [status |-> "none"]

IdleMlp ==
    /\ mlp_args = [status |-> "idle"]
    /\ mlp_result = [status |-> "idle"]

mlp_block ==
    /\ mlp_result.status = "none"
    /\ mlp_result' = mlp_block_outcome(mlp_args)
    /\ UNCHANGED mlp_args

MlpDims == <<mlp_args.input_dim>> \o mlp_args.hidden_dims \o <<mlp_args.output_dim>>

MlpCalled == mlp_result.status \notin {"none", "idle"}

\* C7: with use_skip_connections=True, for any layer (the last one included) whose
\* in_dim differs from its out_dim the skip connection is left out and only a warning
\* is logged: mlp_block still returns the network, with residual wrappers on exactly
\* the layers whose in_dim equals out_dim.
C7_SkipMismatchOnlyWarns ==
    (MlpCalled /\ mlp_args.use_skip_connections) =>
        /\ mlp_result.status = "returned"
        /\ Len(mlp_result.layers) = Len(MlpDims) - 1
        /\ \A i \in 1..(Len(MlpDims) - 1) :
              mlp_result.layers[i].residual <=> (MlpDims[i] = MlpDims[i + 1])
        /\ Len(mlp_result.warnings)
              = Cardinality({i \in 1..(Len(MlpDims) - 1) : MlpDims[i] # MlpDims[i + 1]})

\* What holds of the code: the call returns exactly when skip connections are off
\* or the last layer's dimensions agree, and raises a TypeError otherwise
MLP_RaisesOnLastMismatch ==
    MlpCalled =>
        (mlp_result.status = "raised"
            <=> (mlp_args.use_skip_connections
                    /\ MlpDims[Len(MlpDims) - 1] # MlpDims[Len(MlpDims)]))

\* The modules a hidden layer must hold, in order
ExpectedHidden(i) ==
    LET out == MlpDims[i + 1]
        m1 == <<[type |-> "Linear", in_features |-> MlpDims[i], out_features |-> out]>>
        m2 == IF mlp_args.use_layer_norm
              THEN Append(m1, [type |-> "LayerNorm", normalized_shape |-> out]) ELSE m1
        m3 == IF mlp_args.dropout_ratio > 0
              THEN Append(m2, [type |-> "Dropout", p |-> mlp_args.dropout_ratio]) ELSE m2
        m4 == Append(m3, [type |-> "Activation", name |-> mlp_args.hidden_activation])
    IN IF mlp_args.use_batch_norm
       THEN Append(m4, [type |-> "BatchNorm1d", num_features |-> out]) ELSE m4

MlpStructure ==
    LET n == Len(mlp_args.hidden_dims) + 1 IN
    /\ Len(mlp_result.layers) = n
    /\ \A i \in 1..(n - 1) : mlp_result.layers[i].modules = ExpectedHidden(i)
    /\ mlp_result.layers[n].modules[1]
          = [type |-> "Linear", in_features |-> MlpDims[n], out_features |-> MlpDims[n + 1]]
    /\ IF mlp_args.last_activation = "None"
       THEN Len(mlp_result.layers[n].modules) = 1
       ELSE /\ Len(mlp_result.layers[n].modules) = 2
            /\ mlp_result.layers[n].modules[2]
                  = [type |-> "Activation", name |-> mlp_args.last_activation]

\* C8: mlp_block returns a sequence of exactly len(hidden_dims) + 1 layers; with
\* dims = [input_dim] + hidden_dims + [output_dim], layer i holds a linear map from
\* dims[i] to dims[i+1]; a hidden layer is linear, layer norm (if enabled), dropout
\* (if ratio > 0), hidden activation, batch norm (if enabled), in this order; the last
\* layer has no activation unless last_activation is given.
C8_MlpStructure ==
    MlpCalled => (mlp_result.status = "returned" /\ MlpStructure)

\* What holds of the code: every call that returns returns that structure
MLP_StructureWhenReturned ==
    mlp_result.status = "returned" => MlpStructure

-----------------------------------------------------------------------------
(* conv_block *)

MaxChannels == 2
MaxConvLayers == 2

Conv2d(in_channels, out_channels, kernel_size, stride, padding) ==
    [type |-> "Conv2d", in_channels |-> in_channels, out_channels |-> out_channels,
     kernel_size |-> kernel_size, stride |-> stride, padding |-> padding]
BatchNorm2d(num_features) == [type |-> "BatchNorm2d", num_features |-> num_features]
ReLU == [type |-> "ReLU"]

\* The layers one pass of the loop appends, input_channels_count being the
\* channels coming in
ConvPass(input_channels_count, out_channels, kernel_size, stride, padding, use_batch_norm) ==
    <<Conv2d(input_channels_count, out_channels, kernel_size, stride, padding)>>
    \o (IF use_batch_norm /\ input_channels_count > 1
        THEN <<BatchNorm2d(input_channels_count)>> ELSE <<>>)
    \o <<ReLU>>

\* The loop over zip(output_channels_list, kernel_sizes, strides, paddings), from
\* its k-th pass on
RECURSIVE ConvLayers(_, _, _)
ConvLayers(args, input_channels_count, k) ==
    IF k > Min2(Min2(Len(args.output_channels_list), Len(args.kernel_sizes)),
                Min2(Len(args.strides), Len(args.paddings)))
    THEN <<>>
    ELSE ConvPass(input_channels_count, args.output_channels_list[k], args.kernel_sizes[k],
                  args.strides[k], args.paddings[k], args.use_batch_norm)
         \o ConvLayers(args, args.output_channels_list[k], k + 1)

InitConv ==
    /\ \E nk \in 0..MaxConvLayers, ns \in 0..MaxConvLayers, np \in 0..MaxConvLayers :
         conv_args \in [input_channels_count : 1..MaxChannels,
                        output_channels_list : SeqsUpTo(1..MaxChannels, MaxConvLayers),
                        kernel_sizes : {[k \in 1..nk |-> 3]},
                        strides : {[k \in 1..ns |-> 1]},
                        paddings : {[k \in 1..np |-> 0]},
                        use_batch_norm : BOOLEAN]
    /\ conv_result = [status |-> "none"]

IdleConv ==
    /\ conv_args = [status |-> "idle"]
    /\ conv_result = [status |-> "idle"]

conv_block ==
    /\ conv_result.status = "none"
    /\ conv_result' = [status |-> "returned",
                       layers |-> ConvLayers(conv_args, conv_args.input_channels_count, 1)]
    /\ UNCHANGED conv_args

\* Every layer takes as many channels as the layer before it puts out
RECURSIVE ChannelsChain(_, _, _)
ChannelsChain(layers, channels, with_batch_norm) ==
    IF layers = <<>> THEN TRUE
    ELSE LET l == Head(layers) IN
         CASE l.type = "Conv2d" ->
                  /\ l.in_channels = channels
                  /\ ChannelsChain(Tail(layers), l.out_channels, with_batch_norm)
           [] l.type = "BatchNorm2d" ->
                  /\ with_batch_norm => l.num_features = channels
                  /\ ChannelsChain(Tail(layers), channels, with_batch_norm)
           [] OTHER -> ChannelsChain(Tail(layers), channels, with_batch_norm)

\* C9: in the sequence conv_block returns, the number of input channels of each
\* layer is the number of output channels of the previous layer (the first
\* convolution taking input_channels_count), for every convolution and every
\* batch-norm layer, for all lists of output channel counts.
C9_ChannelsChain ==
    conv_result.status = "returned" =>
        ChannelsChain(conv_result.layers, conv_args.input_channels_count, TRUE)

\* What holds of the code: the convolutions chain
CONV_ConvolutionsChain ==
    conv_result.status = "returned" =>
        ChannelsChain(conv_result.layers, conv_args.input_channels_count, FALSE)

-----------------------------------------------------------------------------
(* DuelingValueNetwork *)

MaxDVBatch == 2
MaxDVActions == 2
MaxDVDim == 2
DVOutputDim == 1

\* x[..., lo:hi] (lo 0-based, hi exclusive)
SliceLast(t, lo, hi) ==
    [shape |-> Front(t.shape) \o <<hi - lo>>,
     data |-> Concat([k \in 1..Numel(Front(t.shape)) |-> SubSeq(RowOf(t, k), lo + 1, hi)])]

\* torch.cat((a, b), dim=-1)
CatLast(a, b) ==
    [shape |-> Front(a.shape) \o <<a.shape[Len(a.shape)] + b.shape[Len(b.shape)]>>,
     data |-> Concat([k \in 1..Numel(Front(a.shape)) |-> RowOf(a, k) \o RowOf(b, k)])]

\* torch.mean(t, dim, keepdim=True), dim counted from the end (-1 the last, -2 the
\* one before it), over a tensor of integers; the result holds rationals
MeanKeepdim(t, dim) ==
    LET d == Len(t.shape) + 1 + dim
        shape == [t.shape EXCEPT ![d] = 1]
    IN MkTensor(shape,
                LAMBDA idx : RNorm(SumSeq([j \in 1..t.shape[d] |->
                                             At(t, [idx EXCEPT ![d] = j - 1])]),
                                   t.shape[d]))

AdvantageMeanOverBatch(advantage) == MeanKeepdim(advantage, -3)

\* torch.mean(advantage, dim=-2, keepdim=True)
AdvantageMean(advantage) == MeanKeepdim(advantage, -2)

\* DuelingValueNetwork.__init__
MkDueling(state_dim, action_dim, hidden_dims, seed) ==
    [state_dim |-> state_dim,
     action_dim |-> action_dim,
     feature_arch |-> MkVanilla(state_dim, hidden_dims, state_dim, seed),
     value_arch |-> MkVanilla(state_dim, <<2>>, DVOutputDim, seed + 1),
     advantage_arch |-> MkVanilla(state_dim + action_dim, <<2>>, DVOutputDim, seed + 2)]

\* DuelingValueNetwork.forward
DV_forward_value(net, x) ==
    LET state_feature == SliceLast(x, 0, net.state_dim)
        action_feature == SliceLast(x, net.state_dim, x.shape[Len(x.shape)])
        processed_state_feature ==
            MapTensor(VanillaForward(net.feature_arch, state_feature), Relu)
        value == VanillaForward(net.value_arch, processed_state_feature)
        feature_action == CatLast(processed_state_feature, action_feature)
        advantage == VanillaForward(net.advantage_arch, feature_action)
        advantage_mean == AdvantageMean(advantage)
        centred == Broadcast(MapTensor(advantage, RInt), advantage_mean, RSub)
    IN Broadcast(MapTensor(value, RInt), centred, RAdd)

\* The feature vector of action a (1-based) in action_dim dimensions
DVActionVector(a, action_dim) == [k \in 1..action_dim |-> a + k]

\* The input: row [b, a] is state b followed by the vector of action a
DVInput(states, action_count, action_dim) ==
    [shape |-> <<Len(states), action_count, Len(states[1]) + action_dim>>,
     data |-> Concat([k \in 1..(Len(states) * action_count) |->
                        states[((k - 1) \div action_count) + 1]
                            \o DVActionVector(((k - 1) % action_count) + 1, action_dim)])]

InitDueling ==
    /\ \E batch_size \in 1..MaxDVBatch, action_count \in 1..MaxDVActions,
          state_dim \in 1..MaxDVDim, seed \in {0, 1} :
         \E states \in [1..batch_size -> [1..state_dim -> {0, 1}]] :
            dv_input = [net |-> MkDueling(state_dim, MaxDVDim + 1 - state_dim, <<2>>, seed),
                        states |-> states,
                        action_count |-> action_count,
                        x |-> DVInput(states, action_count, MaxDVDim + 1 - state_dim)]
    /\ dv_result = [status |-> "none"]

IdleDueling ==
    /\ dv_input = [status |-> "idle"]
    /\ dv_result = [status |-> "idle"]

DV_forward ==
    /\ dv_result.status = "none"
    /\ dv_result' = [status |-> "returned",
                     value |-> DV_forward_value(dv_input.net, dv_input.x)]
    /\ UNCHANGED dv_input

\* value(s) and advantage(s, a) of row [b, a] of the input, computed row by row
DVProcessed(b) ==
    ReluRow(VanillaRow(dv_input.net.feature_arch, dv_input.states[b]))

DVValue(b) == VanillaRow(dv_input.net.value_arch, DVProcessed(b))[1]

DVAdvantage(b, a) ==
    VanillaRow(dv_input.net.advantage_arch,
               DVProcessed(b) \o DVActionVector(a, dv_input.net.action_dim))[1]

DVQ(b, a) == dv_result.value.data[(b - 1) * dv_input.action_count + a]

\* C10: forward returns Q(s, a) = value(s) + advantage(s, a) - mean over the actions
\* a' of advantage(s, a'), the mean taken over the actions of the same state; hence
\* for every state the Q-values minus value(s) sum to zero over the actions.
C10_DuelingQ ==
    dv_result.status = "returned" =>
        LET B == Len(dv_input.states)
            A == dv_input.action_count
        IN /\ dv_result.value.shape = <<B, A, 1>>
           /\ \A b \in 1..B :
                 /\ \A a \in 1..A :
                       DVQ(b, a)[1] * A
                          = DVQ(b, a)[2]
                              * (A * DVValue(b) + A * DVAdvantage(b, a)
                                   - SumSeq([a2 \in 1..A |-> DVAdvantage(b, a2)]))
                 /\ RSumSeq([a \in 1..A |-> RSub(DVQ(b, a), RInt(DVValue(b)))]) = RInt(0)

\* A returned call on two states that differ, with two actions whose advantages
\* differ in one state
C10_Witness ==
    /\ dv_result.status = "returned"
    /\ Len(dv_input.states) = 2
    /\ dv_input.action_count = 2
    /\ dv_input.states[1] # dv_input.states[2]
    /\ DVAdvantage(1, 1) # DVAdvantage(1, 2)
    /\ DVAdvantage(1, 1) + DVAdvantage(1, 2) # DVAdvantage(2, 1) + DVAdvantage(2, 2)

-----------------------------------------------------------------------------
(* ReplayBuffer (replay_buffer.py).  push, sample and __len__ are abstract;
   the concrete buffer here stores the pushed transitions up to a capacity,
   dropping the oldest, and samples without changing what it stores.
   empty() is the default implementation of the base class. *)

MaxCapacity == 3

MaxTransition == 2

MaxSample == 2

Transitions == 1..MaxTransition

\* __len__ of the concrete buffer: the number of stored transitions
RB_len(mem) == Len(mem)

\* A wrong default, for comparison: true for a buffer of at most one transition
empty_value_AtMostOne(mem) == RB_len(mem) <= 1

\* return len(self) == 0
empty_value(mem) == RB_len(mem) = 0

\* push of the concrete buffer: append, and drop the oldest beyond the capacity
PushValue(mem, cap, t) ==
    LET all == Append(mem, t)
    IN  IF Len(all) > cap THEN SubSeq(all, Len(all) - cap + 1, Len(all)) ELSE all

\* The batches sample may return: batch_size stored transitions at distinct positions
SampleValues(mem, batch_size) ==
    { [k \in 1..batch_size |-> mem[pos[k]]] :
        pos \in { p \in [1..batch_size -> 1..Len(mem)] :
                    \A a, b \in 1..batch_size : a # b => p[a] # p[b] } }

InitReplay ==
    /\ memory = <<>>
    /\ capacity \in 1..MaxCapacity
    /\ rb_last = [op |-> "none"]

IdleReplay ==
    /\ memory = <<>>
    /\ capacity = 0
    /\ rb_last = [op |-> "idle"]

RB_push ==
    \E t \in Transitions :
        /\ rb_last.op # "idle"
        /\ memory' = PushValue(memory, capacity, t)
        /\ rb_last' = [op |-> "push", transition |-> t, before |-> memory]
        /\ UNCHANGED capacity

RB_sample ==
    \E batch_size \in 1..MaxSample :
        /\ rb_last.op # "idle"
        /\ IF batch_size <= RB_len(memory)
           THEN \E batch \in SampleValues(memory, batch_size) :
                    rb_last' = [op |-> "sample", status |-> "returned",
                                batch_size |-> batch_size, result |-> batch, before |-> memory]
           ELSE rb_last' = [op |-> "sample", status |-> "raised",
                            batch_size |-> batch_size, before |-> memory]
        /\ UNCHANGED <<memory, capacity>>

RB_empty ==
    /\ rb_last.op # "idle"
    /\ rb_last' = [op |-> "empty", result |-> empty_value(memory), before |-> memory]
    /\ UNCHANGED <<memory, capacity>>

\* C11: whenever empty() has just been called, after any sequence of push and
\* sample calls, its result is a boolean that is true exactly when
\* len(buffer) == 0, and the call left the buffer (its stored transitions and
\* its capacity, hence its length) as it was.
C11_EmptyIffLenZero ==
    rb_last.op = "empty" =>
        /\ (rb_last.result = TRUE) <=> (RB_len(memory) = 0)
        /\ rb_last.result \in BOOLEAN
        /\ memory = rb_last.before

\* empty() called on a buffer that was filled to its capacity, lost its oldest
\* transition to a push, and answered FALSE
C11_Witness ==
    /\ rb_last.op = "empty"
    /\ rb_last.result = FALSE
    /\ capacity = MaxCapacity
    /\ Len(memory) = capacity
    /\ memory[1] # memory[Len(memory)]

\* empty() answering TRUE on a buffer nothing was pushed to
C11_WitnessEmpty ==
    /\ rb_last.op = "empty"
    /\ rb_last.result = TRUE
    /\ memory = <<>>

-----------------------------------------------------------------------------
(* Specifications: one per component, the other components idle *)

NextBandit == DLB_learn_batch /\ UNCHANGED <<varsTarget, varsEnsemble, varsPG, varsDeepBandit, varsMlp, varsConv, varsDueling, varsReplay>>

InitSpecBandit == InitBandit /\ IdleTarget /\ IdleEnsemble /\ IdlePG /\ IdleDeepBandit /\ IdleMlp /\ IdleConv /\ IdleDueling /\ IdleReplay

SpecBandit == InitSpecBandit /\ [][NextBandit]_vars

NextTarget ==
    \/ update_target_network /\ UNCHANGED <<varsBandit, varsEnsemble, varsPG, varsDeepBandit, varsMlp, varsConv, varsDueling, varsReplay>>
    \/ update_target_networks /\ UNCHANGED <<varsBandit, varsEnsemble, varsPG, varsDeepBandit, varsMlp, varsConv, varsDueling, varsReplay>>

InitSpecTarget == IdleBandit /\ InitTarget /\ IdleEnsemble /\ IdlePG /\ IdleDeepBandit /\ IdleMlp /\ IdleConv /\ IdleDueling /\ IdleReplay

SpecTarget == InitSpecTarget /\ [][NextTarget]_vars

NextEnsemble == ensemble_forward /\ UNCHANGED <<varsBandit, varsTarget, varsPG, varsDeepBandit, varsMlp, varsConv, varsDueling, varsReplay>>

InitSpecEnsemble == IdleBandit /\ IdleTarget /\ InitEnsemble /\ IdlePG /\ IdleDeepBandit /\ IdleMlp /\ IdleConv /\ IdleDueling /\ IdleReplay

SpecEnsemble == InitSpecEnsemble /\ [][NextEnsemble]_vars

NextPG ==
    \/ PG_act /\ UNCHANGED <<varsBandit, varsTarget, varsEnsemble, varsDeepBandit, varsMlp, varsConv, varsDueling, varsReplay>>
    \/ PG_learn_batch /\ UNCHANGED <<varsBandit, varsTarget, varsEnsemble, varsDeepBandit, varsMlp, varsConv, varsDueling, varsReplay>>

InitSpecPG == IdleBandit /\ IdleTarget /\ IdleEnsemble /\ InitPG /\ IdleDeepBandit /\ IdleMlp /\ IdleConv /\ IdleDueling /\ IdleReplay

SpecPG == InitSpecPG /\ [][NextPG]_vars

NextDeepBandit == DB_get_scores /\ UNCHANGED <<varsBandit, varsTarget, varsEnsemble, varsPG, varsMlp, varsConv, varsDueling, varsReplay>>

InitSpecDeepBandit == IdleBandit /\ IdleTarget /\ IdleEnsemble /\ IdlePG /\ InitDeepBandit /\ IdleMlp /\ IdleConv /\ IdleDueling /\ IdleReplay

SpecDeepBandit == InitSpecDeepBandit /\ [][NextDeepBandit]_vars

NextMlp == mlp_block /\ UNCHANGED <<varsBandit, varsTarget, varsEnsemble, varsPG, varsDeepBandit, varsConv, varsDueling, varsReplay>>

InitSpecMlp == IdleBandit /\ IdleTarget /\ IdleEnsemble /\ IdlePG /\ IdleDeepBandit /\ InitMlp /\ IdleConv /\ IdleDueling /\ IdleReplay

SpecMlp == InitSpecMlp /\ [][NextMlp]_vars

NextConv == conv_block /\ UNCHANGED <<varsBandit, varsTarget, varsEnsemble, varsPG, varsDeepBandit, varsMlp, varsDueling, varsReplay>>

InitSpecConv == IdleBandit /\ IdleTarget /\ IdleEnsemble /\ IdlePG /\ IdleDeepBandit /\ IdleMlp /\ InitConv /\ IdleDueling /\ IdleReplay

SpecConv == InitSpecConv /\ [][NextConv]_vars

NextDueling == DV_forward /\ UNCHANGED <<varsBandit, varsTarget, varsEnsemble, varsPG, varsDeepBandit, varsMlp, varsConv, varsReplay>>

InitSpecDueling == IdleBandit /\ IdleTarget /\ IdleEnsemble /\ IdlePG /\ IdleDeepBandit /\ IdleMlp /\ IdleConv /\ InitDueling /\ IdleReplay

SpecDueling == InitSpecDueling /\ [][NextDueling]_vars

NextReplay ==
    \/ RB_push /\ UNCHANGED <<varsBandit, varsTarget, varsEnsemble, varsPG, varsDeepBandit, varsMlp, varsConv, varsDueling>>
    \/ RB_sample /\ UNCHANGED <<varsBandit, varsTarget, varsEnsemble, varsPG, varsDeepBandit, varsMlp, varsConv, varsDueling>>
    \/ RB_empty /\ UNCHANGED <<varsBandit, varsTarget, varsEnsemble, varsPG, varsDeepBandit, varsMlp, varsConv, varsDueling>>

InitSpecReplay == IdleBandit /\ IdleTarget /\ IdleEnsemble /\ IdlePG /\ IdleDeepBandit /\ IdleMlp /\ IdleConv /\ IdleDueling /\ InitReplay

SpecReplay == InitSpecReplay /\ [][NextReplay]_vars

=============================================================================
